---- MODULE Spec2Model ----
(***************************************************************************)
(* Conversation orchestration (app/services/chat_service.py) and document  *)
(* ingestion (app/services/file_service.py) of the RAG chatbot, over the   *)
(* relational store declared in app/models/db_models.py.                   *)
(*                                                                         *)
(* Every coroutine is cut at its await points that touch shared state: one *)
(* action per storage statement / provider call.  The store is PostgreSQL  *)
(* (config.py:7) in READ COMMITTED: a statement sees what is committed     *)
(* when it runs, a row becomes visible at its COMMIT.  An AsyncSession     *)
(* opens a transaction with its first statement after a commit, and        *)
(* created_at = now() (db_models.py:65) is the start time of the           *)
(* transaction that inserts the row.                                       *)
(***************************************************************************)
EXTENDS Integers, Sequences, FiniteSets, TLC

\* ------------------------------------------------------------------ bounds
MaxTurns == 2
MaxUploads == 2
MaxChunks == 4
MaxTasks == 2
MaxBlocks == 2
MaxMessages == 6

Turns == 1..MaxTurns
Uploads == 1..MaxUploads
Tasks == 1..MaxTasks

\* ------------------------------------------------------------------ inputs
SessionIds == {"s1", "s2"}
Queries == {"q1"}
Replies == {"r1"}
\* Provider error texts, as the word lists str(e) is searched in.
LLMErrors == {<<"429", "quota">>, <<"RESOURCE_EXHAUSTED">>, <<"timeout">>}
QueryVectors == {0, 3}
\* Environment outcomes of a storage statement, of the retrieval step and of
\* the two steps of an upload
StorageFaults == {"ok", "error"}
RetrievalOutcomes == {"ok", "embed_error", "store_unreachable", "store_error"}
DocumentFaults == {"ok", "commit_error", "refresh_error"}
ChunkFaults == {"ok", "embed_error", "commit_error"}
\* What the provider answers to the call of a consolidation
SummaryTexts == {"sumA", "sumB"}
SummaryOutcomes ==
    {[ok |-> TRUE, text |-> s] : s \in SummaryTexts} \cup {[ok |-> FALSE, text |-> "error"]}
\* Who calls update_summary: the background task list of a returned turn, or
\* (0) a caller of the function itself
DirectCall == 0
\* Extracted texts, as sequences of characters: up to MaxBlocks blocks of one
\* letter each (the k-th block of the k-th letter), joined by nothing, a
\* space, a line break or a blank line
BlockLengths == {50, 100, 500, 800, 900, 1000}
Letters == <<"a", "b", "c">>
Joints == {<<>>, <<" ">>, <<"\n">>, <<"\n", "\n">>}
Block(k, len) == [i \in 1..len |-> Letters[k]]
RECURSIVE TextsOf(_)
TextsOf(n) ==
    IF n = 1 THEN {Block(1, len) : len \in BlockLengths}
    ELSE {text \o joint \o Block(n, len) :
              text \in TextsOf(n - 1), joint \in Joints, len \in BlockLengths}
Contents == UNION {TextsOf(n) : n \in 1..MaxBlocks}
\* Filenames as <<stem, extension>>
Filenames == {<<"a", ".pdf">>, <<"B", ".TXT">>, <<"c", ".docx">>}
\* What reading the file yields: its whole text, blank text, an error on the
\* first page / first byte, or an error after some pages were extracted.
Extractions == {"text", "blank", "error", "partial"}

\* ------------------------------------------------------------------ program constants
max_retries == 3
base_retry_delay == 5
TopK == 3
HistoryLimit == 6
SummaryWindow == 10
chunk_size == 800
chunk_overlap == 100
\* RecursiveCharacterTextSplitter's default separators, tried in this order
Separators == << <<"\n", "\n">>, <<"\n">>, <<" ">>, <<>> >>
Whitespace == {" ", "\n"}

\* What the provider answers to the first, second and third call of a turn
LLMOutcomes ==
    {[ok |-> TRUE, text |-> reply] : reply \in Replies}
        \cup {[ok |-> FALSE, text |-> e] : e \in LLMErrors}
LLMScripts == [1..max_retries -> LLMOutcomes]

OVERLOADED == "I apologize, but I am currently overloaded. Please try again later."
INTERNAL_ERROR == "I apologize, but I encountered an internal error while processing your request."
NO_DOCUMENTS == "No relevant documents found."
RETRIEVAL_ERROR == "Error retrieving context."
CHUNKS_TEXT == "[Chunk]: ..."
NoResult == "none"
NoSid == "none"
NO_SUMMARY == "No summary yet."
Null == "NULL"

VARIABLES
    sessions,    \* ids of the committed rows of table sessions
    summary,     \* sessions.summary per session id
    messages,    \* committed rows of table messages, in commit order
    documents,   \* committed rows of table documents
    chunks,      \* committed rows of table document_chunks
    clock,       \* the store's clock: the next transaction start time
    turn,        \* one process_chat call per element of Turns
    upload,      \* one process_file call per element of Uploads
    task,        \* one update_summary call per element of Tasks
    split        \* one split_text call: its argument and result

vars == <<sessions, summary, messages, documents, chunks, clock, turn, upload, task,
          split>>

\* ------------------------------------------------------------------ pure helpers
Contains(word, text) == \E i \in 1..Len(text) : text[i] = word

\* chat_service.py:239
IsRateLimit(error_str) ==
    Contains("429", error_str) \/ Contains("RESOURCE_EXHAUSTED", error_str)

RetryAlwaysMutant(error_str, attempt) == attempt < max_retries - 1

\* chat_service.py:239-240: the error is retried (sleep, then continue)
ShouldRetry(error_str, attempt) ==
    IsRateLimit(error_str) /\ attempt < max_retries - 1

NoBackoffMutant(retry_delay) == retry_delay

\* chat_service.py:243
NextDelay(retry_delay) == retry_delay * 2

\* chat_service.py:225-248: the retry loop from iteration attempt on, where
\* script[i] is what the i-th LLM call of the turn yields (a reply, or the
\* text of the error raised by get_llm() or ainvoke()).  loop holds the
\* loop's variables; sleeps records the delays slept and caught, per error
\* caught, whether its text carries a rate-limit signal.  raises tells
\* whether the loop is left by `raise e`.
RECURSIVE RetryLoop(_, _, _)
RetryLoop(script, attempt, loop) ==
    IF attempt >= max_retries
    THEN loop
    ELSE LET outcome == script[attempt + 1]
             called == [loop EXCEPT !.attempts = attempt + 1]
             rate_limit == Contains("429", outcome.text)
                               \/ Contains("RESOURCE_EXHAUSTED", outcome.text)
         IN  IF outcome.ok
             THEN [called EXCEPT !.ai_response_text = outcome.text]
             ELSE IF ShouldRetry(outcome.text, attempt)
                  THEN RetryLoop(script, attempt + 1,
                           [called EXCEPT !.caught = Append(loop.caught, rate_limit),
                                          !.sleeps = Append(loop.sleeps, loop.retry_delay),
                                          !.retry_delay = NextDelay(loop.retry_delay)])
                  ELSE [called EXCEPT !.caught = Append(loop.caught, rate_limit),
                                      !.raises = TRUE]

Min(a, b) == IF a < b THEN a ELSE b
Abs(x) == IF x < 0 THEN -x ELSE x

\* l2_distance over one-dimensional vectors
L2Distance(v, w) == Abs(v - w)

ConstantTimestampMutant(tx) == 1

\* The transaction a statement runs in: the open one (tx # 0), or a new one
\* that starts now.  Its start time is what now() yields for created_at.
TxStart(tx) == IF tx = 0 THEN clock ELSE tx

\* The clock after a statement of a session whose transaction state was tx.
Tick(tx) == IF tx = 0 THEN clock + 1 ELSE clock

\* A row of table messages.  by (the writing call) is not a column: it
\* names the turn in the properties.
MessageRow(sid, role, content, created_at, by) ==
    [session_id |-> sid, role |-> role, content |-> content,
     created_at |-> created_at, by |-> by]

\* Foreign key messages.session_id -> sessions.id
MessageFKHolds(sid) == sid \in sessions

NoForeignKeyMutant(sid) == TRUE

\* Foreign key documents.session_id -> sessions.id
DocumentFKHolds(sid) == sid \in sessions

\* Indices of the session's messages
SessionMessages(sid) == {i \in 1..Len(messages) : messages[i].session_id = sid}

\* ORDER BY created_at: i is read before j (ties by row id)
CreatedBefore(i, j) ==
    \/ messages[i].created_at < messages[j].created_at
    \/ messages[i].created_at = messages[j].created_at /\ i < j

\* Number of the session's messages created after message i
NewerThan(sid, i) == Cardinality({j \in SessionMessages(sid) : CreatedBefore(i, j)})

RECURSIVE SortedByCreatedAt(_)
SortedByCreatedAt(S) ==
    IF S = {} THEN <<>>
    ELSE LET first == CHOOSE i \in S : \A j \in S \ {i} : CreatedBefore(i, j)
         IN  <<first>> \o SortedByCreatedAt(S \ {first})

\* select(Message).where(session_id).order_by(created_at.desc()).limit(n),
\* reversed to chronological order; the result is row indices.
RecentMessages(sid, n) ==
    SortedByCreatedAt({i \in SessionMessages(sid) : NewerThan(sid, i) < n})

AllChunksMutant(sid) == chunks

\* chat_service.py:158-161: DocumentChunk JOIN Document WHERE Document.session_id
SessionChunks(sid) ==
    {c \in chunks : \E d \in documents : d.id = c.document_id /\ d.session_id = sid}

\* chat_service.py:162-163: the possible results of ORDER BY distance LIMIT k
NearestChunks(cands, query_vector, k) ==
    {S \in SUBSET cands :
        /\ Cardinality(S) = Min(k, Cardinality(cands))
        /\ \A a \in S : \A b \in cands \ S :
              L2Distance(a.embedding, query_vector) <= L2Distance(b.embedding, query_vector)}

\* ------------------------------------------------------------------ chat turn
\* The state of one process_chat call: its position, arguments and locals,
\* its storage session (tx: start time of the open transaction, 0 if none;
\* aborted: a statement failed in it), its outcome (result, raised,
\* failed_at: the stage whose exception reached the outer handler), and
\* after: the calls that had returned when this one began, and user_row: the
\* row of table messages that holds its user message (0 before it is saved).
IdleTurn ==
    [pc |-> "idle", session_id |-> NoSid, user_query |-> "none",
     session_summary |-> "", tx |-> 0, aborted |-> FALSE,
     context |-> {}, context_text |-> "", history |-> <<>>,
     attempts |-> 0, sleeps |-> <<>>, caught |-> <<>>, ai_response_text |-> "",
     result |-> NoResult, raised |-> FALSE, failed_at |-> "none",
     created |-> FALSE, scheduled |-> FALSE, after |-> {}, user_row |-> 0]

ReraiseMutant(r, stage) ==
    [r EXCEPT !.pc = "done", !.raised = TRUE, !.failed_at = stage,
              !.tx = 0, !.aborted = FALSE]

ScheduleOnErrorMutant(r, stage) ==
    [r EXCEPT !.pc = "done", !.result = INTERNAL_ERROR, !.failed_at = stage,
              !.tx = 0, !.aborted = FALSE, !.scheduled = TRUE]

\* chat_service.py:265-268: the outer handler turns any exception into the
\* apology and returns; the request's storage session (routes.py:22) and
\* whatever transaction it holds end with the request.
OnException(r, stage) ==
    [r EXCEPT !.pc = "done", !.result = INTERNAL_ERROR, !.failed_at = stage,
              !.tx = 0, !.aborted = FALSE]

SetTurn(t, r) == turn' = [turn EXCEPT ![t] = r]

\* chat_service.py:128-130,137: process_chat is called and SELECTs the
\* session; the statement opens the call's first transaction.
EnsureSession(t, sid, q, fault) ==
    LET r == [turn[t] EXCEPT !.session_id = sid, !.user_query = q,
                             !.tx = TxStart(turn[t].tx),
                             !.after = {o \in Turns : turn[o].pc = "done"}]
    IN
    /\ turn[t].pc = "idle"
    /\ t > 1 => turn[t - 1].pc # "idle"
    /\ clock' = Tick(turn[t].tx)
    /\ IF fault = "error"
       THEN SetTurn(t, OnException(r, "ensure"))
       ELSE IF sid \in sessions
            THEN SetTurn(t, [r EXCEPT !.pc = "save_user",
                               !.session_summary =
                                   IF summary[sid] = Null THEN "" ELSE summary[sid]])
            ELSE SetTurn(t, [r EXCEPT !.pc = "create"])
    /\ UNCHANGED <<sessions, summary, messages, documents, chunks, upload, task, split>>

NoInsertMutant(sid) == sessions

\* chat_service.py:132-134: the sessions table after INSERT + COMMIT
SessionsAfterCreate(sid) == sessions \cup {sid}

NoPrimaryKeyMutant(sid) == FALSE

\* db_models.py:28: primary key sessions.id; an INSERT of an id that is
\* already stored is rejected
SessionPKRejects(sid) == sid \in sessions

\* chat_service.py:131-135: INSERT the session and COMMIT.  The primary key
\* rejects a second row with the same id.
CreateSession(t, fault) ==
    LET r == turn[t] IN
    /\ r.pc = "create"
    /\ IF fault = "error" \/ SessionPKRejects(r.session_id)
       THEN /\ SetTurn(t, OnException(r, "ensure"))
            /\ UNCHANGED sessions
       ELSE /\ sessions' = SessionsAfterCreate(r.session_id)
            /\ SetTurn(t, [r EXCEPT !.pc = "save_user", !.tx = 0,
                                   !.session_summary = "", !.created = TRUE])
    /\ UNCHANGED <<summary, messages, documents, chunks, clock, upload, task, split>>

NotCommittedMutant(r, t) == messages

OverwriteLastMutant(r, t) ==
    IF messages = <<>>
    THEN <<MessageRow(r.session_id, "user", r.user_query, TxStart(r.tx), t)>>
    ELSE [messages EXCEPT ![Len(messages)] =
              MessageRow(r.session_id, "user", r.user_query, TxStart(r.tx), t)]

\* chat_service.py:143-145: the messages table after the user message of
\* turn t is inserted and committed
MessagesAfterUser(r, t) ==
    Append(messages, MessageRow(r.session_id, "user", r.user_query,
                                TxStart(r.tx), t))

\* chat_service.py:143-145: INSERT the user message and COMMIT
SaveUserMessage(t, fault) ==
    LET r == turn[t] IN
    /\ r.pc = "save_user"
    /\ clock' = Tick(r.tx)
    /\ IF fault = "error" \/ ~MessageFKHolds(r.session_id)
       THEN /\ SetTurn(t, OnException([r EXCEPT !.tx = TxStart(r.tx)], "save_user"))
            /\ UNCHANGED messages
       ELSE /\ messages' = MessagesAfterUser(r, t)
            /\ SetTurn(t, [r EXCEPT !.pc = "retrieve", !.tx = 0,
                                    !.user_row = Len(messages) + 1])
    /\ UNCHANGED <<sessions, summary, documents, chunks, upload, task, split>>

\* chat_service.py:152-176: embed the query and SELECT the nearest chunks of
\* the session; every failure is absorbed into the error marker.  A
\* statement that fails in the store leaves the transaction it opened
\* aborted; when the store cannot be reached no transaction is opened.
RetrieveContext(t, outcome, query_vector) ==
    LET r == turn[t] IN
    /\ r.pc = "retrieve"
    /\ CASE outcome \in {"embed_error", "store_unreachable"} ->
              /\ SetTurn(t, [r EXCEPT !.pc = "history", !.context_text = RETRIEVAL_ERROR])
              /\ UNCHANGED clock
         [] outcome = "store_error" ->
              /\ SetTurn(t, [r EXCEPT !.pc = "history", !.context_text = RETRIEVAL_ERROR,
                                      !.tx = TxStart(r.tx), !.aborted = TRUE])
              /\ clock' = Tick(r.tx)
         [] OTHER ->
              /\ \E relevant_chunks \in
                      NearestChunks(SessionChunks(r.session_id), query_vector, TopK) :
                    SetTurn(t, [r EXCEPT !.pc = "history", !.tx = TxStart(r.tx),
                                         !.context = relevant_chunks,
                                         !.context_text =
                                             IF relevant_chunks # {} THEN CHUNKS_TEXT
                                             ELSE NO_DOCUMENTS])
              /\ clock' = Tick(r.tx)
    /\ UNCHANGED <<sessions, summary, messages, documents, chunks, upload, task, split>>

\* chat_service.py:183-215: SELECT the last 6 messages and build the prompt.
\* In an aborted transaction the statement fails.
ReadHistory(t, fault) ==
    LET r == turn[t] IN
    /\ r.pc = "history"
    /\ clock' = Tick(r.tx)
    /\ IF fault = "error" \/ r.aborted
       THEN SetTurn(t, OnException([r EXCEPT !.tx = TxStart(r.tx)], "history"))
       ELSE SetTurn(t, [r EXCEPT !.pc = "llm", !.tx = TxStart(r.tx),
                                 !.history = RecentMessages(r.session_id, HistoryLimit)])
    /\ UNCHANGED <<sessions, summary, messages, documents, chunks, upload, task, split>>

\* chat_service.py:225-263: the LLM call with its retry loop, which touches
\* no shared state, then INSERT of the assistant message in the transaction
\* the reads opened, COMMIT, scheduling of update_summary and return.
GenerateAndSave(t, script, fault) ==
    LET r == turn[t]
        loop == RetryLoop(script, 0,
                    [attempts |-> 0, retry_delay |-> base_retry_delay,
                     sleeps |-> <<>>, caught |-> <<>>,
                     ai_response_text |-> OVERLOADED, raises |-> FALSE])
        after_loop == [r EXCEPT !.attempts = loop.attempts, !.sleeps = loop.sleeps,
                                !.caught = loop.caught,
                                !.ai_response_text = loop.ai_response_text]
    IN
    /\ r.pc = "llm"
    /\ IF loop.raises
       THEN /\ SetTurn(t, OnException(after_loop, "llm"))
            /\ UNCHANGED messages
       ELSE IF fault = "error" \/ ~MessageFKHolds(r.session_id)
       THEN /\ SetTurn(t, OnException(after_loop, "save_ai"))
            /\ UNCHANGED messages
       ELSE /\ messages' = Append(messages,
                   MessageRow(r.session_id, "assistant", loop.ai_response_text,
                              TxStart(r.tx), t))
            /\ SetTurn(t, [after_loop EXCEPT !.pc = "done", !.tx = 0, !.scheduled = TRUE,
                                             !.result = loop.ai_response_text])
    /\ UNCHANGED <<sessions, summary, documents, chunks, clock, upload, task, split>>

\* routes.py:18-41: the worker that answered a request takes the next one;
\* the finished call's locals are gone.  Requests are taken while fewer than
\* MaxMessages messages are stored.
NextRequest(t) ==
    /\ turn[t].pc = "done"
    /\ Len(messages) < MaxMessages
    /\ SetTurn(t, IdleTurn)
    /\ UNCHANGED <<sessions, summary, messages, documents, chunks, clock, upload, task,
                   split>>

\* The steps of the chat turns under storage faults F, retrieval outcomes R
\* and provider scripts P
TurnStep(F, R, P) ==
    \/ \E t \in Turns, sid \in SessionIds, q \in Queries, fault \in F :
          EnsureSession(t, sid, q, fault)
    \/ \E t \in Turns, fault \in F : CreateSession(t, fault)
    \/ \E t \in Turns, fault \in F : SaveUserMessage(t, fault)
    \/ \E t \in Turns, outcome \in R, query_vector \in QueryVectors :
          RetrieveContext(t, outcome, query_vector)
    \/ \E t \in Turns, fault \in F : ReadHistory(t, fault)
    \/ \E t \in Turns, script \in P, fault \in F : GenerateAndSave(t, script, fault)

\* ------------------------------------------------------------------ upload
\* The state of one process_file call; extraction is what reading the file's
\* bytes does, embed_calls the number of aembed_documents calls made, status
\* the HTTP status the call ends with and failed_at the step that raised.
IdleUpload ==
    [pc |-> "idle", session_id |-> NoSid, filename |-> <<>>, content |-> "",
     extraction |-> "none", doc_id |-> 0, chunk_count |-> 0, embed_calls |-> 0,
     status |-> 0, failed_at |-> "none"]

\* str.lower() on the extensions in Filenames
Lower(ext) ==
    CASE ext = ".PDF" -> ".pdf"
      [] ext = ".TXT" -> ".txt"
      [] OTHER -> ext

\* file_service.py:34,41: filename.lower().endswith(suffix)
EndsWith(filename, suffix) == Lower(filename[2]) = suffix

\* file_service.py:113-127: parse_pdf keeps the text of the pages read before
\* an error and swallows the error.
ParsePdf(extraction) ==
    CASE extraction = "text" -> "full text"
      [] extraction = "partial" -> "partial text"
      [] OTHER -> ""

\* file_service.py:43: bytes.decode("utf-8") raises on undecodable bytes
DecodeRaises(extraction) == extraction \in {"error", "partial"}

\* file_service.py:51: content.strip() is empty
IsBlank(content) == content = ""

ParseAnyMutant(filename, extraction) ==
    IF EndsWith(filename, ".pdf")
    THEN IF IsBlank(ParsePdf(extraction))
         THEN [error |-> "empty", content |-> ""]
         ELSE [error |-> "none", content |-> ParsePdf(extraction)]
    ELSE IF DecodeRaises(extraction) THEN [error |-> "read", content |-> ""]
         ELSE IF extraction = "blank" THEN [error |-> "empty", content |-> ""]
         ELSE [error |-> "none", content |-> "full text"]

\* file_service.py:31-52: the extracted text, or the step that raises 400
ParseFile(filename, extraction) ==
    IF EndsWith(filename, ".pdf")
    THEN IF IsBlank(ParsePdf(extraction))
         THEN [error |-> "empty", content |-> ""]
         ELSE [error |-> "none", content |-> ParsePdf(extraction)]
    ELSE IF EndsWith(filename, ".txt")
    THEN IF DecodeRaises(extraction) THEN [error |-> "read", content |-> ""]
         ELSE IF extraction = "blank" THEN [error |-> "empty", content |-> ""]
         ELSE [error |-> "none", content |-> "full text"]
    ELSE [error |-> "format", content |-> ""]

SetUpload(u, r) == upload' = [upload EXCEPT ![u] = r]

\* file_service.py:45-52 / 108-111: the HTTPException the call ends with
UploadFails(r, code, stage) ==
    [r EXCEPT !.pc = "done", !.status = code, !.failed_at = stage]

\* A row of table documents; by (the writing call) is not a column.
DocumentRow(id, r, u) ==
    [id |-> id, session_id |-> r.session_id, filename |-> r.filename,
     content |-> r.content, by |-> u]

\* file_service.py:110: db.rollback() undoes the statements of the open
\* transaction only; the rows committed at line 61 stay.
DocumentsAfterRollback(r) == documents

\* file_service.py:25-76: read and extract the file, INSERT the Document and
\* COMMIT, refresh it, split the text.  n is the number of chunks
\* split_text returns for the content.
StoreDocument(u, sid, filename, extraction, n, fault) ==
    LET parsed == ParseFile(filename, extraction)
        id == Cardinality(documents) + 1
        r == [upload[u] EXCEPT !.session_id = sid, !.filename = filename,
                               !.extraction = extraction,
                               !.content = parsed.content]
    IN
    /\ upload[u].pc = "idle"
    /\ u > 1 => upload[u - 1].pc # "idle"
    /\ IF parsed.error # "none"
       THEN /\ SetUpload(u, UploadFails(r, 400, parsed.error))
            /\ UNCHANGED documents
       ELSE IF fault = "commit_error" \/ ~DocumentFKHolds(sid)
       THEN /\ SetUpload(u, UploadFails(r, 500, "save_doc"))
            /\ documents' = DocumentsAfterRollback(r)
       ELSE /\ documents' = documents \cup {DocumentRow(id, r, u)}
            /\ IF fault = "refresh_error"
               THEN SetUpload(u, UploadFails([r EXCEPT !.doc_id = id], 500, "refresh"))
               ELSE IF n = 0
               THEN SetUpload(u, [r EXCEPT !.pc = "done", !.doc_id = id, !.status = 200])
               ELSE SetUpload(u, [r EXCEPT !.pc = "embed", !.doc_id = id,
                                           !.chunk_count = n])
    /\ UNCHANGED <<sessions, summary, messages, chunks, clock, turn, task, split>>

\* The vectors the embedding provider returns for chunks 1..n
EmbeddingsOf(n) == [i \in 1..n |-> i]

FirstRowOnlyMutant(doc_id, chunk_count, vectors) ==
    {[document_id |-> doc_id, seq |-> 1, embedding |-> vectors[1]]}

\* file_service.py:91-99: one DocumentChunk per (chunk, vector) pair
ChunkRows(doc_id, chunk_count, vectors) ==
    {[document_id |-> doc_id, seq |-> i, embedding |-> vectors[i]] :
        i \in 1..Min(chunk_count, Len(vectors))}

\* file_service.py:82-111: one batched aembed_documents call, then add_all +
\* COMMIT of the chunk rows.  Either may raise; the handler rolls back and
\* answers 500.
EmbedAndSaveChunks(u, fault) ==
    LET r == [upload[u] EXCEPT !.embed_calls = @ + 1] IN
    /\ upload[u].pc = "embed"
    /\ IF fault = "embed_error"
       THEN /\ SetUpload(u, UploadFails(r, 500, "embed"))
            /\ documents' = DocumentsAfterRollback(r)
            /\ UNCHANGED chunks
       ELSE IF fault = "commit_error"
       THEN /\ SetUpload(u, UploadFails(r, 500, "save_chunks"))
            /\ documents' = DocumentsAfterRollback(r)
            /\ UNCHANGED chunks
       ELSE /\ chunks' = chunks \cup ChunkRows(r.doc_id, r.chunk_count,
                                               EmbeddingsOf(r.chunk_count))
            /\ SetUpload(u, [r EXCEPT !.pc = "done", !.status = 200])
            /\ UNCHANGED documents
    /\ UNCHANGED <<sessions, summary, messages, clock, turn, task, split>>

\* The steps of the uploads of files named in N with extraction outcomes X,
\* under faults DF of the document step and CF of the chunk step
UploadStep(N, X, DF, CF) ==
    \/ \E u \in Uploads, sid \in SessionIds, f \in N, x \in X,
          n \in 0..MaxChunks, fault \in DF :
          StoreDocument(u, sid, f, x, n, fault)
    \/ \E u \in Uploads, fault \in CF : EmbedAndSaveChunks(u, fault)

\* ------------------------------------------------------------------ chunking
\* file_service.py:71-72: RecursiveCharacterTextSplitter(chunk_size=800,
\* chunk_overlap=100).split_text(content), with the library's defaults
\* (separators "\n\n", "\n", " ", ""; the separator is kept at the start of
\* the piece that follows it; chunks are stripped of surrounding
\* whitespace).  A piece and a chunk are ranges [from, to] of positions of
\* the text.
IdleSplit == [pc |-> "idle", content |-> <<>>, chunks |-> <<>>]

\* sep occurs in text at position i of lo..hi
OccursAt(text, sep, i, hi) ==
    /\ i + Len(sep) - 1 <= hi
    /\ \A j \in 1..Len(sep) : text[i + j - 1] = sep[j]

\* The start of the run of character c that holds position i
RunStart(text, c, i, lo) ==
    CHOOSE j \in lo..i :
        /\ \A m \in j..i : text[m] = c
        /\ j = lo \/ text[j - 1] # c

\* re.split: the leftmost non-overlapping occurrences of sep (one character,
\* repeated) in text[lo..hi]
Matches(text, sep, lo, hi) ==
    {i \in lo..hi :
        /\ OccursAt(text, sep, i, hi)
        /\ (i - RunStart(text, sep[1], i, lo)) % Len(sep) = 0}

\* _split_text_with_regex: text[lo..hi] cut before every occurrence of the
\* separator, without empty pieces; list(text) for the empty separator
SplitWithRegex(text, sep, lo, hi) ==
    IF sep = <<>>
    THEN [k \in 1..(hi - lo + 1) |-> [from |-> lo + k - 1, to |-> lo + k - 1]]
    ELSE LET starts == {lo} \cup Matches(text, sep, lo, hi)
             n == Cardinality(starts)
             at(k) == CHOOSE st \in starts : Cardinality({c \in starts : c <= st}) = k
         IN  [k \in 1..n |-> [from |-> at(k),
                               to |-> IF k = n THEN hi ELSE at(k + 1) - 1]]

\* Length of the pieces l..h of P joined (they are adjacent in the text)
Span(P, l, h) == IF l > h THEN 0 ELSE P[h].to - P[l].from + 1

\* _join_docs: the joined pieces stripped of surrounding whitespace; nothing
\* when no character is left
JoinDocs(text, from, to) ==
    LET kept == {i \in from..to : text[i] \notin Whitespace} IN
    IF kept = {} THEN <<>>
    ELSE << [from |-> CHOOSE i \in kept : \A j \in kept : i <= j,
             to |-> CHOOSE i \in kept : \A j \in kept : j <= i] >>

\* _merge_splits, the while loop: the number of pieces dropped from the
\* front of the pieces lo..full-1 before piece full is appended
Popped(P, lo, full) ==
    Cardinality({l \in lo..(full - 1) :
        \/ Span(P, l, full - 1) > chunk_overlap
        \/ Span(P, l, full - 1) + Span(P, full, full) > chunk_size})

\* _merge_splits: pieces are appended to the current chunk while they fit in
\* chunk_size; then the chunk is emitted and its front dropped down to the
\* overlap.  lo..hi-1 are the pieces of the current chunk, hi the next
\* piece; one level of the recursion emits one chunk.
RECURSIVE MergeSplits(_, _, _, _)
MergeSplits(text, P, lo, hi) ==
    LET n == Len(P)
        full == hi + Cardinality({h \in hi..n : Span(P, lo, h) <= chunk_size})
        doc == IF lo < full THEN JoinDocs(text, P[lo].from, P[full - 1].to) ELSE <<>>
    IN  IF full > n THEN doc
        ELSE doc \o MergeSplits(text, P, lo + Popped(P, lo, full), full + 1)

\* _split_text: split on the first separator that occurs; merge the runs of
\* pieces shorter than chunk_size, and split a longer piece again with the
\* separators that remain.
RECURSIVE SplitTextRec(_, _, _, _)
RECURSIVE SplitPieces(_, _, _, _)
SplitPieces(text, P, i, new_separators) ==
    LET n == Len(P)
        big == {j \in i..n : Span(P, j, j) >= chunk_size}
        b == IF big = {} THEN n + 1 ELSE CHOOSE j \in big : \A m \in big : j <= m
        merged == MergeSplits(text, SubSeq(P, i, b - 1), 1, 1)
    IN  IF b > n THEN merged
        ELSE merged
               \o (IF new_separators = <<>> THEN <<P[b]>>
                   ELSE SplitTextRec(text, new_separators, P[b].from, P[b].to))
               \o SplitPieces(text, P, b + 1, new_separators)

SplitTextRec(text, separators, lo, hi) ==
    LET found == {k \in 1..Len(separators) :
                     separators[k] = <<>> \/ Matches(text, separators[k], lo, hi) # {}}
        k == CHOOSE f \in found : \A g \in found : f <= g
    IN  SplitPieces(text, SplitWithRegex(text, separators[k], lo, hi), 1,
                    SubSeq(separators, k + 1, Len(separators)))

\* file_service.py:72: text_splitter.split_text(content)
SplitText(content) ==
    /\ split.pc = "idle"
    /\ split' = [pc |-> "done", content |-> content,
                 chunks |-> SplitTextRec(content, Separators, 1, Len(content))]
    /\ UNCHANGED <<sessions, summary, messages, documents, chunks, clock, turn, upload,
                   task>>

\* ------------------------------------------------------------------ consolidation
\* The state of one update_summary call: its position, argument and locals
\* (recent_messages as row indices), the number of LLM calls it made, whether
\* it committed a summary, and its outcome (raised; failed_at: the step whose
\* exception the handler at lines 106-108 caught).  origin is the turn whose
\* task list ran it; replaced is the value of sessions.summary that its
\* UPDATE overwrote, rank the position of its commit among the commits to the
\* session's summary, and after the calls that had ended when it began.
IdleTask ==
    [pc |-> "idle", session_id |-> NoSid, origin |-> DirectCall,
     recent_messages |-> <<>>, current_summary |-> "", new_summary |-> "",
     llm_calls |-> 0, wrote |-> FALSE, replaced |-> "", rank |-> 0,
     raised |-> FALSE, failed_at |-> "none", after |-> {}]

SetTask(k, r) == task' = [task EXCEPT ![k] = r]

PropagateMutant(r, stage) == [r EXCEPT !.pc = "done", !.failed_at = stage, !.raised = TRUE]

\* chat_service.py:106-108: the handler logs the exception and returns
Swallow(r, stage) == [r EXCEPT !.pc = "done", !.failed_at = stage]

AnyTurnMutant(k, sid, origin) ==
    \/ origin = DirectCall
    \/ /\ origin \in Turns
       /\ turn[origin].pc # "idle" /\ turn[origin].session_id = sid

\* Starlette runs the task a turn added (chat_service.py:261) once, after the
\* turn has returned.
MayRun(k, sid, origin) ==
    \/ origin = DirectCall
    \/ /\ origin \in Turns
       /\ turn[origin].scheduled /\ turn[origin].session_id = sid
       /\ \A j \in Tasks : task[j].origin # origin

NeverEmptyMutant(recent_messages) == FALSE

\* chat_service.py:67: `not recent_messages`
NoMessages(recent_messages) == recent_messages = <<>>

\* chat_service.py:59-68: update_summary opens its own storage session and
\* SELECTs the last 10 messages of the session; without messages it returns.
FetchRecentMessages(k, sid, origin, fault) ==
    LET r == [task[k] EXCEPT !.session_id = sid, !.origin = origin,
                             !.after = {j \in Tasks : task[j].pc = "done"}]
        recent_messages == RecentMessages(sid, SummaryWindow)
    IN
    /\ task[k].pc = "idle"
    /\ k > 1 => task[k - 1].pc # "idle"
    /\ MayRun(k, sid, origin)
    /\ IF fault = "error"
       THEN SetTask(k, Swallow(r, "read_messages"))
       ELSE IF NoMessages(recent_messages)
       THEN SetTask(k, [r EXCEPT !.pc = "done"])
       ELSE SetTask(k, [r EXCEPT !.pc = "read_summary",
                                 !.recent_messages = recent_messages])
    /\ UNCHANGED <<sessions, summary, messages, documents, chunks, clock, turn, upload, split>>

IgnoreStoredMutant(sid) == NO_SUMMARY

\* chat_service.py:71-73: session_obj.summary, or the placeholder when the
\* session row does not exist
CurrentSummary(sid) == IF sid \in sessions THEN summary[sid] ELSE NO_SUMMARY

\* chat_service.py:71-73: SELECT the session and take its summary
FetchCurrentSummary(k, fault) ==
    LET r == task[k] IN
    /\ r.pc = "read_summary"
    /\ IF fault = "error"
       THEN SetTask(k, Swallow(r, "read_summary"))
       ELSE SetTask(k, [r EXCEPT !.pc = "llm",
                                 !.current_summary = CurrentSummary(r.session_id)])
    /\ UNCHANGED <<sessions, summary, messages, documents, chunks, clock, turn, upload, split>>

\* Number of commits made so far to the summary of session sid
SummaryCommits(sid) ==
    Cardinality({j \in Tasks : task[j].wrote /\ task[j].session_id = sid})

\* chat_service.py:100-102: UPDATE sessions SET summary WHERE id = sid
SummaryAfterUpdate(sid, new_summary) ==
    IF sid \in sessions THEN [summary EXCEPT ![sid] = new_summary] ELSE summary

\* chat_service.py:76-103: one llm.ainvoke call on the prompt built from
\* current_summary and recent_messages, which touches no shared state, then
\* UPDATE of sessions.summary and COMMIT.  Either may raise.
SummarizeAndWrite(k, outcome, fault) ==
    LET r == [task[k] EXCEPT !.llm_calls = @ + 1] IN
    /\ task[k].pc = "llm"
    /\ IF ~outcome.ok
       THEN /\ SetTask(k, Swallow(r, "llm"))
            /\ UNCHANGED summary
       ELSE IF fault = "error"
       THEN /\ SetTask(k, Swallow([r EXCEPT !.new_summary = outcome.text], "write"))
            /\ UNCHANGED summary
       ELSE /\ summary' = SummaryAfterUpdate(r.session_id, outcome.text)
            /\ SetTask(k, [r EXCEPT !.pc = "done", !.new_summary = outcome.text,
                                    !.wrote = TRUE,
                                    !.replaced = summary[r.session_id],
                                    !.rank = SummaryCommits(r.session_id) + 1])
    /\ UNCHANGED <<sessions, messages, documents, chunks, clock, turn, upload, split>>

\* The steps of the update_summary calls made by the callers in O, under
\* storage faults F and provider answers S
ConsolidateStep(O, F, S) ==
    \/ \E k \in Tasks, sid \in SessionIds, origin \in O, fault \in F :
          FetchRecentMessages(k, sid, origin, fault)
    \/ \E k \in Tasks, fault \in F : FetchCurrentSummary(k, fault)
    \/ \E k \in Tasks, outcome \in S, fault \in F : SummarizeAndWrite(k, outcome, fault)

\* ------------------------------------------------------------------ endpoints
CHAT_500 == "Internal Server Error during chat processing."
UPLOAD_500 == "Internal Server Error processing file: "
READ_400 == "Error reading file: "
UNSUPPORTED_400 == "400: Unsupported file format. Only PDF and TXT are supported."
EMPTY_400 == "File content is empty or could not be extracted."
UPLOAD_OK == "File uploaded and processed successfully."

ApologyIsErrorMutant(r) ==
    IF r.raised \/ r.result = INTERNAL_ERROR
    THEN [status |-> 500, response |-> CHAT_500, session_id |-> NoSid]
    ELSE [status |-> 200, response |-> r.result, session_id |-> r.session_id]

\* routes.py:36-41: the answer of POST /chat to a process_chat call that has
\* ended as r: 200 with its text and the request's session_id, or 500 when
\* it raised
ChatEndpoint(r) ==
    IF r.raised
    THEN [status |-> 500, response |-> CHAT_500, session_id |-> NoSid]
    ELSE [status |-> 200, response |-> r.result, session_id |-> r.session_id]

NoException == "none"

\* file_service.py:45-52,111: the detail of the HTTPException that
\* process_file raises at a step: the fixed text of its f-string, and in
\* exception the step whose exception text str(e) is appended to it
HTTPDetail(stage) ==
    CASE stage = "format" -> [text |-> <<READ_400, UNSUPPORTED_400>>, exception |-> NoException]
      [] stage = "read" -> [text |-> <<READ_400>>, exception |-> stage]
      [] stage = "empty" -> [text |-> <<EMPTY_400>>, exception |-> NoException]
      [] OTHER -> [text |-> <<UPLOAD_500>>, exception |-> stage]

\* routes.py:64-73: the answer of POST /upload to a process_file call that
\* has ended as r: the confirmation, or the HTTPException of process_file
\* raised again as it is
UploadEndpoint(r) ==
    IF r.status = 200
    THEN [status |-> 200, filename |-> r.filename, session_id |-> r.session_id,
          detail |-> [text |-> <<UPLOAD_OK>>, exception |-> NoException]]
    ELSE [status |-> r.status, filename |-> <<>>, session_id |-> NoSid,
          detail |-> HTTPDetail(r.failed_at)]

\* ------------------------------------------------------------------ specifications
Init ==
    /\ sessions = {}
    /\ summary = [s \in SessionIds |-> Null]
    /\ messages = <<>>
    /\ documents = {}
    /\ chunks = {}
    /\ clock = 1
    /\ turn = [t \in Turns |-> IdleTurn]
    /\ upload = [u \in Uploads |-> IdleUpload]
    /\ task = [k \in Tasks |-> IdleTask]
    /\ split = IdleSplit

\* No two chat turns are in flight at once after the step
SerialTurns ==
    \A a, b \in Turns :
        a # b => turn'[a].pc \in {"idle", "done"} \/ turn'[b].pc \in {"idle", "done"}

\* Uploads of every kind of file under every fault, beside faultless chat
\* turns that run one at a time and create the sessions
NextUpload ==
    \/ /\ TurnStep({"ok"}, {"ok"}, {[i \in 1..max_retries |-> [ok |-> TRUE, text |-> "r1"]]})
       /\ SerialTurns
    \/ UploadStep(Filenames, Extractions, DocumentFaults, ChunkFaults)

SpecUpload == Init /\ [][NextUpload]_vars

\* Faultless chat turns that run one at a time, and the consolidations they
\* schedule, under every storage fault and provider answer
NextMemory ==
    \/ /\ TurnStep({"ok"}, {"ok"}, {[i \in 1..max_retries |-> [ok |-> TRUE, text |-> "r1"]]})
       /\ SerialTurns
    \/ ConsolidateStep(Turns, StorageFaults, SummaryOutcomes)

SpecMemory == Init /\ [][NextMemory]_vars

\* update_summary called on its own for any session, beside the same turns
NextConsolidate ==
    \/ /\ TurnStep({"ok"}, {"ok"}, {[i \in 1..max_retries |-> [ok |-> TRUE, text |-> "r1"]]})
       /\ SerialTurns
    \/ ConsolidateStep({DirectCall}, StorageFaults, SummaryOutcomes)

SpecConsolidate == Init /\ [][NextConsolidate]_vars

\* Chat turns that run one at a time under every storage fault and provider
\* answer, and the consolidations that Starlette runs for them
NextSchedule ==
    \/ /\ TurnStep(StorageFaults, {"ok"}, LLMScripts)
       /\ SerialTurns
    \/ ConsolidateStep(Turns, StorageFaults, SummaryOutcomes)

SpecSchedule == Init /\ [][NextSchedule]_vars

\* The three operations side by side: chat turns that run one at a time,
\* uploads of a PDF whose chunk step may fail, and the consolidations of the
\* turns under every provider answer
NextOperations ==
    \/ /\ TurnStep({"ok"}, {"ok"}, {[i \in 1..max_retries |-> [ok |-> TRUE, text |-> "r1"]]})
       /\ SerialTurns
    \/ UploadStep({<<"a", ".pdf">>}, {"text"}, {"ok"}, ChunkFaults)
    \/ ConsolidateStep(Turns, {"ok"}, SummaryOutcomes)

SpecOperations == Init /\ [][NextOperations]_vars

\* Faultless concurrent chat turns, each worker answering one request after
\* another
NextHistory ==
    \/ TurnStep({"ok"}, {"ok"}, {[i \in 1..max_retries |-> [ok |-> TRUE, text |-> "r1"]]})
    \/ \E t \in Turns : NextRequest(t)

SpecHistory == Init /\ [][NextHistory]_vars

\* Concurrent chat turns whose storage statements fail only when a
\* constraint rejects them, under every provider answer
NextRace == TurnStep({"ok"}, {"ok"}, LLMScripts)

SpecRace == Init /\ [][NextRace]_vars

\* split_text alone, applied to every text of Contents
NextSplit == \E content \in Contents : SplitText(content)

SpecSplit == Init /\ [][NextSplit]_vars

\* Chat turns alone, under every storage fault and provider answer
NextChat == TurnStep(StorageFaults, RetrievalOutcomes, LLMScripts)

SpecChat == Init /\ [][NextChat]_vars

\* Uploads of a PDF (with or without text) or an unsupported file, under
\* every fault, concurrent with each other and with one chat turn at a time
\* whose storage statements and LLM calls succeed
Next ==
    \/ /\ TurnStep({"ok"}, RetrievalOutcomes, {[i \in 1..max_retries |-> [ok |-> TRUE, text |-> "r1"]]})
       /\ SerialTurns
    \/ UploadStep({<<"a", ".pdf">>, <<"c", ".docx">>}, {"text", "blank"},
                  DocumentFaults, ChunkFaults)

Spec == Init /\ [][Next]_vars

\* ------------------------------------------------------------------ properties
Returned(t) == turn[t].pc = "done"

\* Rows of table messages written by turn t with the given role
MessagesOf(t, role) ==
    {i \in 1..Len(messages) : messages[i].by = t /\ messages[i].role = role}

\* The LLM call of turn t ended with a reply
LLMReplied(t) == Returned(t) /\ turn[t].ai_response_text \in Replies

\* Every error the turn caught in the retry loop carried a rate-limit signal
OnlyRateLimits(t) == \A i \in 1..Len(turn[t].caught) : turn[t].caught[i]

BackoffDelays == <<base_retry_delay, 2 * base_retry_delay>>

\* C1: process_chat never raises; a turn whose memory read, LLM invocation
\* or assistant-message commit failed (retrieval failures are absorbed into
\* the context marker) returns the fixed internal-error apology.
C1_TurnNeverRaises ==
    \A t \in Turns :
        /\ ~turn[t].raised
        /\ Returned(t) => turn[t].result # NoResult
        /\ Returned(t) /\ turn[t].failed_at \in {"history", "llm", "save_ai"}
              => turn[t].result = INTERNAL_ERROR

C1_Witness ==
    \E t \in Turns :
        /\ Returned(t) /\ turn[t].failed_at = "save_ai"
        /\ turn[t].result = INTERNAL_ERROR
        /\ turn[t].context_text = RETRIEVAL_ERROR

\* C2 (as claimed): a turn whose three LLM attempts all failed with a
\* rate-limit error returns the "currently overloaded" fallback message and
\* raises nothing.
C2_OverloadedFallbackReturned ==
    \A t \in Turns :
        Returned(t) /\ turn[t].attempts = max_retries /\ Len(turn[t].caught) = max_retries
            /\ OnlyRateLimits(t)
            => turn[t].result = OVERLOADED /\ ~turn[t].raised

\* C3: after k = 1 or 2 rate-limit failures in a row and then a reply, the
\* turn has slept exactly k times, 5 s then 10 s, and made k + 1 attempts; no
\* turn makes more than 3 attempts; the turn returns the reply and the reply
\* is the content of its assistant message (unless the commit of that
\* message itself failed).
C3_BackoffThenReply ==
    \A t \in Turns :
        /\ turn[t].attempts <= max_retries
        /\ LLMReplied(t) /\ Len(turn[t].caught) \in {1, 2} /\ OnlyRateLimits(t)
              => /\ turn[t].sleeps = SubSeq(BackoffDelays, 1, Len(turn[t].caught))
                 /\ turn[t].attempts = Len(turn[t].caught) + 1
                 /\ turn[t].failed_at \in {"none", "save_ai"}
                 /\ turn[t].failed_at = "none" =>
                       /\ turn[t].result = turn[t].ai_response_text
                       /\ \E i \in MessagesOf(t, "assistant") :
                             messages[i].content = turn[t].result

C3_Witness ==
    \E t \in Turns :
        /\ LLMReplied(t) /\ turn[t].caught = <<TRUE, TRUE>>
        /\ turn[t].failed_at = "none" /\ turn[t].result \in Replies

\* C4: an error without a rate-limit signal is the last thing the retry
\* loop does: it is the last error caught, no attempt and no sleep follows
\* it, and it leaves the loop as an exception.
C4_OtherErrorsNotRetried ==
    \A t \in Turns :
        \A i \in 1..Len(turn[t].caught) :
            ~turn[t].caught[i]
                => /\ i = Len(turn[t].caught)
                   /\ turn[t].attempts = i
                   /\ Len(turn[t].sleeps) = i - 1
                   /\ Returned(t) /\ turn[t].failed_at = "llm"

C4_Witness ==
    \E t \in Turns : turn[t].caught = <<TRUE, FALSE>> /\ turn[t].attempts = 2

\* The session that owns chunk c
ChunkSessions(c) == {d.session_id : d \in {x \in documents : x.id = c.document_id}}

\* C5: every chunk placed in the context of a turn belongs to a Document of
\* the turn's session.
C5_RetrievalIsolated ==
    \A t \in Turns :
        \A c \in turn[t].context : ChunkSessions(c) = {turn[t].session_id}

C5_Witness ==
    \E t \in Turns :
        /\ Cardinality(turn[t].context) = TopK
        /\ Cardinality(SessionChunks(turn[t].session_id)) > TopK
        /\ \E c \in chunks : turn[t].session_id \notin ChunkSessions(c)

\* C6: every Message row references an existing Session, and a turn reaches
\* the insert of its user message only with its Session committed.
C6_MessagesReferenceSessions ==
    /\ \A i \in 1..Len(messages) : messages[i].session_id \in sessions
    /\ \A t \in Turns :
          turn[t].pc \in {"save_user", "retrieve", "history", "llm"}
              => turn[t].session_id \in sessions

C6_Witness ==
    \E t \in Turns :
        /\ turn[t].created
        /\ MessagesOf(t, "user") # {} /\ MessagesOf(t, "assistant") # {}

\* C7: a turn that has begun retrieval, memory read or LLM invocation, or
\* has returned after one of them, has its user message committed, whatever
\* its outcome.
C7_UserMessageDurable ==
    \A t \in Turns :
        \/ turn[t].pc \in {"retrieve", "history", "llm"}
        \/ Returned(t) /\ turn[t].failed_at \in {"none", "history", "llm", "save_ai"}
        => \E i \in MessagesOf(t, "user") :
              /\ messages[i].session_id = turn[t].session_id
              /\ messages[i].content = turn[t].user_query

C7_Witness ==
    \E t \in Turns :
        /\ Returned(t) /\ turn[t].failed_at = "llm" /\ turn[t].result = INTERNAL_ERROR
        /\ MessagesOf(t, "user") # {}

\* Within each turn the user message is committed before the assistant
\* message
UserBeforeAssistant ==
    \A t \in Turns :
        \A i \in MessagesOf(t, "user"), j \in MessagesOf(t, "assistant") : i < j

\* C8 (as claimed): within a turn the user message is persisted before the
\* assistant message, and a session's messages read in creation-time order
\* come in the order in which they were inserted.
C8_CreationOrderIsInsertionOrder ==
    /\ UserBeforeAssistant
    /\ \A i, j \in 1..Len(messages) :
          i < j /\ messages[i].session_id = messages[j].session_id
              => messages[i].created_at <= messages[j].created_at

\* C9 (as claimed): the messages of two turns on one session never
\* interleave.
C9_TurnsNeverInterleave ==
    \A i, j, k \in 1..Len(messages) :
        i < j /\ j < k /\ messages[i].session_id = messages[j].session_id
            /\ messages[i].by = messages[k].by
            => messages[j].by = messages[i].by

\* C9 (amended): when a turn on a session had returned before another turn
\* on that session was called, all its messages precede the later turn's
\* messages, in commit order and in creation time; and within every turn
\* the user message precedes the assistant message in both orders.
C9_SequentialTurnsInOrder ==
    /\ \A t \in Turns :
          \A i \in MessagesOf(t, "user"), j \in MessagesOf(t, "assistant") :
              i < j /\ messages[i].created_at < messages[j].created_at
    /\ \A a, b \in Turns :
          a \in turn[b].after /\ turn[a].session_id = turn[b].session_id
              => \A i, j \in 1..Len(messages) :
                    messages[i].by = a /\ messages[j].by = b
                        => i < j /\ messages[i].created_at < messages[j].created_at

C9_Witness ==
    \E a, b \in Turns :
        /\ a \in turn[b].after /\ turn[a].session_id = turn[b].session_id
        /\ MessagesOf(a, "assistant") # {} /\ MessagesOf(b, "assistant") # {}

\* C10 (as claimed): an upload whose embedding call or chunk insert failed
\* fails and leaves neither its Document nor any of its chunks persisted.
C10_FailedUploadLeavesNothing ==
    \A u \in Uploads :
        upload[u].pc = "done" /\ upload[u].failed_at \in {"embed", "save_chunks"}
            => /\ upload[u].status = 500
               /\ \A d \in documents : d.by # u
               /\ \A c \in chunks : c.document_id # upload[u].doc_id

\* ------------------------------------------------------------------ uploads
Unsupported(filename) == filename[2] \notin {".pdf", ".PDF", ".txt", ".TXT"}

WrittenBy(u) == {d \in documents : d.by = u}

ChunksOf(u) == {c \in chunks : \E d \in WrittenBy(u) : c.document_id = d.id}

\* C11: an upload whose filename ends in neither .pdf nor .txt, in any
\* letter case, ends with status 400 in the step that reads the name: it
\* writes no Document and no chunk and makes no embedding call.
C11_UnsupportedFormatTouchesNothing ==
    \A u \in Uploads :
        upload[u].pc # "idle" /\ Unsupported(upload[u].filename) =>
            /\ upload[u].pc = "done"
            /\ upload[u].status = 400
            /\ WrittenBy(u) = {} /\ ChunksOf(u) = {}
            /\ upload[u].doc_id = 0
            /\ upload[u].embed_calls = 0

\* an unsupported upload was refused while another upload stored its chunks
C11_Witness ==
    \E u, v \in Uploads :
        /\ upload[u].status = 400 /\ Unsupported(upload[u].filename)
        /\ upload[v].status = 200 /\ ChunksOf(v) # {}

\* C12: an upload of a .pdf or .txt file whose text extraction fails (corrupt
\* file, a page that cannot be parsed, undecodable bytes) or yields blank
\* text ends with an error status and leaves no Document record behind.
C12_FailedExtractionLeavesNoDocument ==
    \A u \in Uploads :
        /\ upload[u].pc # "idle"
        /\ ~Unsupported(upload[u].filename)
        /\ upload[u].extraction \in {"error", "partial", "blank"}
        => /\ upload[u].pc = "done"
           /\ upload[u].status \in {400, 500}
           /\ WrittenBy(u) = {}

\* ------------------------------------------------------------------ consolidation
Failed(k) == task[k].failed_at # "none"

\* C13: a consolidation that fails at the message read, the summary read, the
\* LLM call or the summary write ends without raising and without having
\* written, and the step in which it fails leaves Session.summary, the
\* persisted messages and every turn (its reply included) as they were.
C13_FailedConsolidationIsSilent ==
    [][\A k \in Tasks :
          Failed(k)' =>
              /\ task'[k].pc = "done" /\ ~task'[k].raised /\ ~task'[k].wrote
              /\ ~Failed(k) =>
                    /\ summary' = summary
                    /\ messages' = messages
                    /\ turn' = turn]_vars

\* the consolidation a turn scheduled failed at its write after an earlier
\* one had committed a summary, which is still the session's summary
C13_Witness ==
    \E k, j \in Tasks :
        /\ task[k].failed_at = "write" /\ task[k].origin \in Turns
        /\ task[j].wrote /\ j \in task[k].after
        /\ task[j].session_id = task[k].session_id
        /\ summary[task[k].session_id] = task[j].new_summary
        /\ task[k].new_summary # task[j].new_summary
        /\ turn[task[k].origin].result \in Replies

\* The newest row a consolidation read (0 before it has read any)
WindowEnd(k) ==
    LET rows == {task[k].recent_messages[i] : i \in 1..Len(task[k].recent_messages)}
    IN  IF rows = {} THEN 0 ELSE CHOOSE m \in rows : \A o \in rows : o <= m

\* The consolidations that committed a summary of k's session before k did
EarlierCommits(k) ==
    {j \in Tasks \ {k} : /\ task[j].wrote
                          /\ task[j].session_id = task[k].session_id
                          /\ task[j].rank < task[k].rank}

\* C14 as stated: every committed summary was computed from the summary
\* value it replaced and from a message window at least as recent as the
\* window behind every summary committed before it, however the
\* consolidations of a session interleave.
C14_SummaryNeverReverted ==
    \A k \in Tasks :
        task[k].wrote =>
            /\ task[k].current_summary = task[k].replaced
            /\ \A j \in EarlierCommits(k) : WindowEnd(j) <= WindowEnd(k)

\* C14 as amended: the same, for a consolidation that began after every
\* consolidation that committed before it on the session had ended.
C14_SequentialConsolidationsRefine ==
    \A k \in Tasks :
        task[k].wrote /\ EarlierCommits(k) \subseteq task[k].after =>
            /\ task[k].current_summary = task[k].replaced
            /\ \A j \in EarlierCommits(k) : WindowEnd(j) <= WindowEnd(k)

\* a consolidation refined the summary an earlier one had committed, over a
\* window that reaches further
C14_Witness ==
    \E k \in Tasks : \E j \in EarlierCommits(k) :
        /\ task[k].wrote /\ j \in task[k].after
        /\ task[k].current_summary = task[j].new_summary
        /\ WindowEnd(j) < WindowEnd(k)

\* C15: an update_summary call on a session without messages ends in its
\* first step, having made no LLM call and no write to Session.summary, and
\* an ended call does nothing further.
C15_NoMessagesNoOp ==
    [][\A k \in Tasks :
          /\ task[k].pc = "idle" /\ task'[k].pc # "idle"
               /\ SessionMessages(task'[k].session_id) = {}
             => /\ task'[k].pc = "done"
                /\ task'[k].llm_calls = 0 /\ ~task'[k].wrote
                /\ summary' = summary
          /\ task[k].pc = "done" => task'[k] = task[k]]_vars

\* update_summary returned at once for a session that exists and has no
\* message
C15_Witness ==
    \E k \in Tasks :
        /\ task[k].pc = "done" /\ ~Failed(k)
        /\ task[k].session_id \in sessions
        /\ SessionMessages(task[k].session_id) = {}
        /\ task[k].llm_calls = 0 /\ ~task[k].wrote
        /\ summary[task[k].session_id] = Null

\* C16: when a consolidation of a session has committed and the next one to
\* commit on that session began after it ended and read the same messages
\* (none was persisted in between), the summary after the second equals the
\* summary after the first.
C16_ConsolidateIdempotent ==
    \A j, k \in Tasks :
        /\ task[j].wrote /\ task[k].wrote
        /\ task[j].session_id = task[k].session_id
        /\ j \in task[k].after
        /\ task[k].rank = task[j].rank + 1
        /\ task[k].recent_messages = task[j].recent_messages
        => task[k].new_summary = task[j].new_summary

\* ------------------------------------------------------------------ retrieval
Degraded(t) == turn[t].context_text \in {NO_DOCUMENTS, RETRIEVAL_ERROR}

\* C17: in turns whose only failures are in retrieval, a turn whose context
\* is the no-documents marker retrieved no chunk, and a turn whose context
\* is that marker or the error marker is never ended by an exception: when
\* it has returned, it has called the LLM and its result is the LLM's reply.
C17_RetrievalNeverAborts ==
    \A t \in Turns :
        /\ turn[t].context_text = NO_DOCUMENTS => turn[t].context = {}
        /\ Degraded(t) /\ Returned(t) =>
              /\ turn[t].failed_at = "none"
              /\ turn[t].attempts >= 1
              /\ turn[t].result \in Replies

\* ------------------------------------------------------------------ chunking
ChunkLen(i) == split.chunks[i].to - split.chunks[i].from + 1

\* The first n characters and the last n characters of chunk i
ChunkHead(i, n) == SubSeq(split.content, split.chunks[i].from, split.chunks[i].from + n - 1)
ChunkTail(i, n) == SubSeq(split.content, split.chunks[i].to - n + 1, split.chunks[i].to)

\* C18: the chunks of a non-empty text are a sliding window of size 800 and
\* overlap 100: no chunk is longer than 800 characters, every chunk after
\* the first begins with the last 100 characters of its predecessor, every
\* position of the text up to its end lies in a chunk, and a text of 2000
\* characters gives exactly 3 chunks.
C18_SlidingWindowSplit ==
    split.pc = "done" =>
        LET n == Len(split.chunks) IN
        /\ n >= 1
        /\ \A i \in 1..n : ChunkLen(i) <= 800
        /\ \A i \in 2..n :
              /\ ChunkLen(i - 1) >= 100 /\ ChunkLen(i) >= 100
              /\ ChunkHead(i, 100) = ChunkTail(i - 1, 100)
        /\ \A p \in 1..Len(split.content) :
              \E i \in 1..n : split.chunks[i].from <= p /\ p <= split.chunks[i].to
        /\ Len(split.content) = 2000 => n = 3

\* ------------------------------------------------------------------ endpoints
\* C19: POST /chat answers every turn that has ended with status 200, the
\* text process_chat returned and the request's session_id; for a turn that
\* failed inside, that text is the apology.  No turn is answered with 500.
C19_ChatAnswers200 ==
    \A t \in Turns :
        Returned(t) =>
            /\ ChatEndpoint(turn[t]).status = 200
            /\ ChatEndpoint(turn[t]).response = turn[t].result
            /\ ChatEndpoint(turn[t]).session_id = turn[t].session_id
            /\ turn[t].session_id \in SessionIds
            /\ turn[t].failed_at # "none" => ChatEndpoint(turn[t]).response = INTERNAL_ERROR

\* a turn whose LLM call failed and a turn that got a reply were both
\* answered with status 200
C19_Witness ==
    \E a, b \in Turns :
        /\ Returned(a) /\ turn[a].failed_at = "llm"
        /\ ChatEndpoint(turn[a]) = [status |-> 200, response |-> INTERNAL_ERROR,
                                    session_id |-> turn[a].session_id]
        /\ Returned(b) /\ LLMReplied(b)
        /\ ChatEndpoint(turn[b]).status = 200
        /\ ChatEndpoint(turn[b]).response \in Replies

InternalStages == {"save_doc", "refresh", "embed", "save_chunks"}

\* C20: POST /upload answers a completed process_file with the confirmation
\* that echoes filename and session_id, malformed or unsupported input with
\* status 400, and an internal failure with status 500 and a body that
\* holds no text of the underlying exception.
C20_UploadStatusMapping ==
    \A u \in Uploads :
        upload[u].pc = "done" =>
            LET r == upload[u]
                answer == UploadEndpoint(r)
            IN  /\ r.failed_at = "none" =>
                      /\ answer.status = 200
                      /\ answer.filename = r.filename
                      /\ answer.session_id = r.session_id
                /\ r.failed_at \in {"format", "read", "empty"} => answer.status = 400
                /\ r.failed_at \in InternalStages =>
                      /\ answer.status = 500
                      /\ answer.detail.exception = NoException

\* ------------------------------------------------------------------ scheduling
\* The consolidations run for turn t
TasksOf(t) == {k \in Tasks : task[k].pc # "idle" /\ task[k].origin = t}

\* C21: a turn has scheduled a consolidation exactly when it has returned
\* with its assistant message committed; a consolidation run for a turn
\* runs for a turn that has scheduled it and returned, on that turn's
\* session, and no turn has more than one; a turn that has returned, its
\* reply included, is never changed afterwards, whatever its consolidation
\* does.
C21_ScheduledOnceAfterReply ==
    [][/\ \A t \in Turns :
             /\ turn'[t].scheduled <=>
                    (Returned(t)' /\ MessagesOf(t, "assistant")' # {})
             /\ Cardinality(TasksOf(t)') <= 1
             /\ Returned(t) => turn'[t] = turn[t]
       /\ \A k \in Tasks :
             task'[k].pc # "idle" /\ task'[k].origin \in Turns =>
                 /\ turn'[task'[k].origin].scheduled
                 /\ turn'[task'[k].origin].pc = "done"
                 /\ turn'[task'[k].origin].session_id = task'[k].session_id]_vars

\* the consolidation of a turn that got its reply has failed, the reply is
\* still the turn's result, and a turn that failed has no consolidation
C21_Witness ==
    \E a, b \in Turns : \E k \in TasksOf(a) :
        /\ Returned(a) /\ turn[a].scheduled /\ turn[a].result \in Replies
        /\ task[k].pc = "done" /\ Failed(k)
        /\ Returned(b) /\ ~turn[b].scheduled /\ TasksOf(b) = {}
        /\ turn[b].result = INTERNAL_ERROR

\* ------------------------------------------------------------------ frames
\* The committed messages are kept as they are; rows are only appended
MessagesKept == /\ Len(messages') >= Len(messages)
                /\ SubSeq(messages', 1, Len(messages)) = messages

\* Turn t created its session and saved both its messages, and no other
\* turn has been called on that session
OnlyTurnOf(t) ==
    /\ turn[t].created /\ turn[t].scheduled
    /\ \A o \in Turns \ {t} : turn[o].session_id # turn[t].session_id

\* What is stored for the session of t when t is its only turn
AfterOnlyTurn(t) ==
    OnlyTurnOf(t) =>
        /\ turn[t].session_id \in sessions
        /\ Cardinality(SessionMessages(turn[t].session_id)) = 2
        /\ Cardinality(MessagesOf(t, "user")) = 1
        /\ Cardinality(MessagesOf(t, "assistant")) = 1
        /\ (\A k \in Tasks : ~task[k].wrote) => summary[turn[t].session_id] = Null

\* C22: a step of a chat turn keeps every committed message, appends
\* messages at most, adds sessions at most (each with an unset summary) and
\* touches no summary, document or chunk; a step of an upload adds documents
\* and chunks at most and touches no session, summary or message; a step of
\* a consolidation touches nothing but the summary of its session.  After
\* the only turn of a session it created, the session exists with one user
\* and one assistant message, and its summary is unset until a consolidation
\* has written it.
C22_OperationsWriteOwnRecords ==
    [][/\ turn' # turn =>
             /\ MessagesKept
             /\ sessions \subseteq sessions'
             /\ \A sid \in sessions' \ sessions : summary'[sid] = Null
             /\ summary' = summary /\ documents' = documents /\ chunks' = chunks
       /\ upload' # upload =>
             /\ documents \subseteq documents' /\ chunks \subseteq chunks'
             /\ sessions' = sessions /\ summary' = summary /\ messages' = messages
       /\ task' # task =>
             /\ sessions' = sessions /\ messages' = messages
             /\ documents' = documents /\ chunks' = chunks
             /\ \A sid \in SessionIds :
                   summary'[sid] # summary[sid] =>
                       \E k \in Tasks : task'[k] # task[k] /\ task'[k].session_id = sid
       /\ \A t \in Turns : AfterOnlyTurn(t)']_vars

\* after the first turn of a new session its summary was still unset beside
\* a stored document with chunks; then the turn's consolidation wrote it
C22_Witness ==
    \E t \in Turns : \E k \in TasksOf(t) :
        /\ OnlyTurnOf(t) /\ task[k].wrote /\ task[k].replaced = Null
        /\ summary[turn[t].session_id] \in SummaryTexts
        /\ Cardinality(SessionMessages(turn[t].session_id)) = 2
        /\ \E d \in documents : d.session_id = turn[t].session_id
        /\ chunks # {}

\* ------------------------------------------------------------------ history
\* C23: the history a turn has read for its prompt holds at most 6 rows, all
\* of the turn's session, in chronological order, and the turn's own
\* just-saved user message is among them exactly once, whatever other turns
\* of the session persisted between the turn's user-message commit and its
\* history read.
C23_HistoryHoldsOwnQuery ==
    \A t \in Turns :
        turn[t].pc = "llm" =>
            LET history == turn[t].history IN
            /\ Len(history) <= 6
            /\ \A i \in 1..Len(history) :
                  messages[history[i]].session_id = turn[t].session_id
            /\ \A i, j \in 1..Len(history) :
                  i < j => CreatedBefore(history[i], history[j])
            /\ turn[t].user_row # 0
            /\ Cardinality({i \in 1..Len(history) : history[i] = turn[t].user_row}) = 1

\* ------------------------------------------------------------------ sessions
\* Turns whose INSERT of session sid was committed
CreatorsOf(sid) == {t \in Turns : turn[t].session_id = sid /\ turn[t].created}

\* C24: a session id is stored iff exactly one turn created it, also when
\* several first turns for the id saw no Session; a turn whose INSERT the
\* primary key rejected (the only ensure-stage failure when no statement
\* fails on its own) has returned the internal-error apology, created
\* nothing and persisted no Message, and another turn created the Session.
C24_OneSessionPerId ==
    /\ \A sid \in SessionIds :
          /\ Cardinality(CreatorsOf(sid)) <= 1
          /\ sid \in sessions <=> Cardinality(CreatorsOf(sid)) = 1
    /\ \A t \in Turns :
          turn[t].failed_at = "ensure" =>
              /\ Returned(t)
              /\ turn[t].result = INTERNAL_ERROR
              /\ ~turn[t].raised
              /\ ~turn[t].created
              /\ MessagesOf(t, "user") = {} /\ MessagesOf(t, "assistant") = {}
              /\ CreatorsOf(turn[t].session_id) \ {t} # {}

C24_Witness ==
    \E t, u \in Turns :
        /\ t # u
        /\ turn[t].session_id = turn[u].session_id
        /\ turn[t].failed_at = "ensure"
        /\ turn[u].created
        /\ MessagesOf(u, "user") # {}

\* Uploads that got past the reading of the file
Extracted(u) ==
    upload[u].pc # "idle" /\ ~(upload[u].pc = "done" /\ upload[u].status = 400)

\* C25: every stored Document references a stored Session, every stored
\* Session was created by a chat turn, and an upload whose file was read
\* but whose session id has no Session has ended with status 500 in the
\* Document step, with no Document and no chunk written and no embedding
\* call made.
C25_UploadNeedsSession ==
    /\ \A d \in documents : d.session_id \in sessions
    /\ \A sid \in sessions : CreatorsOf(sid) # {}
    /\ \A u \in Uploads :
          Extracted(u) /\ upload[u].session_id \notin sessions =>
              /\ upload[u].pc = "done"
              /\ upload[u].status = 500
              /\ upload[u].failed_at = "save_doc"
              /\ upload[u].embed_calls = 0
              /\ WrittenBy(u) = {} /\ ChunksOf(u) = {}

C25_Witness ==
    \E u, v \in Uploads :
        /\ Extracted(u) /\ upload[u].session_id \notin sessions
        /\ upload[u].status = 500
        /\ upload[v].status = 200 /\ WrittenBy(v) # {}

\* ------------------------------------------------------------------ failed reply
\* The LLM invocation of turn t ended in an error: one without a rate-limit
\* signal, or a rate-limit error on the last attempt
LLMFailed(t) == Returned(t) /\ turn[t].failed_at = "llm"

\* The session's rows stored after row i
LaterRows(i) == {j \in SessionMessages(messages[i].session_id) : j > i}

\* C26: a turn whose LLM invocation ended in an error returned the
\* internal-error apology after an error without rate-limit signal or after
\* max_retries rate-limit errors; its only Message is its user message, the
\* apology is stored nowhere, no consolidation is scheduled or run for it,
\* and with one turn at a time the session's next row after that user
\* message, if any, is another user message.
C26_FailedReplyNotPersisted ==
    \A t \in Turns :
        LLMFailed(t) =>
            /\ turn[t].result = INTERNAL_ERROR /\ ~turn[t].raised
            /\ \/ \E i \in 1..Len(turn[t].caught) : ~turn[t].caught[i]
               \/ OnlyRateLimits(t) /\ turn[t].attempts = max_retries
            /\ MessagesOf(t, "user") = {turn[t].user_row}
            /\ MessagesOf(t, "assistant") = {}
            /\ \A i \in 1..Len(messages) :
                  messages[i].content \notin {INTERNAL_ERROR, OVERLOADED}
            /\ ~turn[t].scheduled /\ TasksOf(t) = {}
            /\ \A j \in LaterRows(turn[t].user_row) :
                  (\A i \in LaterRows(turn[t].user_row) : j <= i) =>
                      messages[j].role = "user"

\* a turn exhausted its retries on rate limits, the next turn of the session
\* stored its user message right after the first one's and failed on an
\* error without rate-limit signal
C26_Witness ==
    \E t, u \in Turns :
        /\ LLMFailed(t) /\ OnlyRateLimits(t) /\ turn[t].attempts = max_retries
        /\ LLMFailed(u) /\ ~OnlyRateLimits(u)
        /\ turn[u].session_id = turn[t].session_id
        /\ turn[u].user_row = turn[t].user_row + 1
        /\ LaterRows(turn[u].user_row) = {}

\* ------------------------------------------------------------------ chunk batch
\* The stored chunks of Document d
StoredChunks(d) == {c \in chunks : c.document_id = d.id}

\* C27: in every committed state a Document has none of its chunks, or all
\* chunk_count of them, numbered 1..chunk_count and each with the vector the
\* one batched embedding call returned for it; then its upload made exactly
\* one embedding call and ended with status 200.  The chunks a retrieval
\* has read belong to Documents whose chunks are all stored.
C27_ChunksAllOrNone ==
    /\ \A d \in documents :
          LET r == upload[d.by] IN
          \/ StoredChunks(d) = {}
          \/ /\ {c.seq : c \in StoredChunks(d)} = 1..r.chunk_count
             /\ Cardinality(StoredChunks(d)) = r.chunk_count
             /\ \A c \in StoredChunks(d) :
                   c.embedding = EmbeddingsOf(r.chunk_count)[c.seq]
             /\ r.embed_calls = 1 /\ r.pc = "done" /\ r.status = 200
    /\ \A c \in chunks : \E d \in documents : d.id = c.document_id
    /\ \A t \in Turns : \A c \in turn[t].context :
          \E d \in documents :
              /\ d.id = c.document_id
              /\ Cardinality(StoredChunks(d)) = upload[d.by].chunk_count

\* a turn's retrieval has read chunks of a fully stored Document of several
\* chunks while another upload of the session, its Document committed, has
\* not stored its chunks yet
C27_Witness ==
    \E t \in Turns : \E d, e \in documents :
        /\ turn[t].pc = "history" /\ turn[t].context # {}
        /\ d.session_id = turn[t].session_id /\ e.session_id = turn[t].session_id
        /\ Cardinality(StoredChunks(d)) >= 2
        /\ upload[e.by].pc = "embed" /\ upload[e.by].chunk_count >= 2
        /\ StoredChunks(e) = {}

====
